---- MODULE Spec2Model ----
(***************************************************************************)
(* A model of the recurrence engine of myday-backend:                      *)
(*   - the occurrence generator of app/utils/recurrenceUtils.js            *)
(*     (generateOccurrences, generateYearlyOccurrences and the luxon /     *)
(*     rrule calls they make), as operators;                               *)
(*   - the series mutation engine of app/controllers/taskController.js     *)
(*     (createTask, updateTaskById, deleteTaskById) over the Task and      *)
(*     Series collections, as actions.                                     *)
(*                                                                         *)
(* Time.  The source counts epoch milliseconds.  The model counts ticks    *)
(* from the same origin (1970-01-01T00:00Z) on the real Gregorian          *)
(* calendar with 24-hour days, but with reduced radices below the hour:    *)
(* MinPerHour minutes an hour, SecPerMin seconds a minute and SubSec       *)
(* sub-second values a second, so that 200 yearly occurrences fit the      *)
(* integers of the checker.  No operation of the source depends on the     *)
(* value of a radix, only on the decomposition of a timestamp into         *)
(* year/month/day/hour/minute/second/millisecond.                          *)
(***************************************************************************)
EXTENDS Integers, Sequences, FiniteSets, TLC

\* ------------------------------------------------------------------ bounds
\* radices below the hour (the source: 60, 60 and 1000)
MinPerHour == 2
SecPerMin == 2
SubSec == 2
\* rrule follows a rule up to MAXYEAR = 9999; the model follows a monthly rule
\* for this many months per occurrence asked for
MaxIdle == 12

\* ----------------------------------------------------------- program constants
MAX_OCCURRENCES == 200

\* a field that is not there (undefined in the source)
Absent == -1
NoTz == "none"

TickSec == SubSec
TickMin == SecPerMin * TickSec
TickHour == MinPerHour * TickMin
TickDay == 24 * TickHour

\* ------------------------------------------------------- calendar (luxon, Date)
IsLeap(y) == (y % 4 = 0 /\ y % 100 # 0) \/ y % 400 = 0

DaysInMonth(y, m) ==
  IF m = 2 THEN (IF IsLeap(y) THEN 29 ELSE 28)
  ELSE IF m \in {4, 6, 9, 11} THEN 30 ELSE 31

\* day number (days since 1970-01-01) of a civil date, from the era (400
\* years), the year of the era and the day of the year that starts in March
DaysOfEra(era, yoe, doy) ==
  era * 146097 + yoe * 365 + yoe \div 4 - yoe \div 100 + doy - 719468

DaysFromShifted(yy, mp, d) ==
  DaysOfEra(yy \div 400, yy % 400, (153 * mp + 2) \div 5 + d - 1)

DaysFromCivil(y, m, d) ==
  DaysFromShifted(IF m <= 2 THEN y - 1 ELSE y, (m + 9) % 12, d)

\* civil date of a day number
CivilOf(era, yoe, doy, mp) ==
  [year |-> yoe + era * 400 + (IF mp < 10 THEN 0 ELSE 1),
   month |-> IF mp < 10 THEN mp + 3 ELSE mp - 9,
   day |-> doy - (153 * mp + 2) \div 5 + 1]

CivilOfDay(era, yoe, doy) == CivilOf(era, yoe, doy, (5 * doy + 2) \div 153)

CivilOfYear(era, doe, yoe) ==
  CivilOfDay(era, yoe, doe - (365 * yoe + yoe \div 4 - yoe \div 100))

CivilOfEra(era, doe) ==
  CivilOfYear(era, doe,
              (doe - doe \div 1460 + doe \div 36524 - doe \div 146096) \div 365)

CivilFromDays(z) == CivilOfEra((z + 719468) \div 146097, (z + 719468) % 146097)

\* 0 = Sunday .. 6 = Saturday (models/recursion.js DayOfWeek); 1970-01-01 was a Thursday
Weekday(dayNo) == (dayNo + 4) % 7

\* the timestamp whose UTC wall clock reads the given fields (DateTime.utc)
UtcTS(y, m, d, h, mi, s, ms) ==
  DaysFromCivil(y, m, d) * TickDay + h * TickHour + mi * TickMin + s * TickSec + ms

\* the wall clock made of a civil date and a time of day in ticks
ClockOf(c, tod) ==
  [year |-> c.year, month |-> c.month, day |-> c.day,
   hour |-> tod \div TickHour,
   minute |-> (tod % TickHour) \div TickMin,
   second |-> (tod % TickMin) \div TickSec,
   ms |-> tod % TickSec]

\* the UTC wall clock of a timestamp
UtcFields(ts) == ClockOf(CivilFromDays(ts \div TickDay), ts % TickDay)

\* --------------------------------------------------------------- time zones
\* the zones of the model: UTC, and one zone with daylight saving
\* (America/New_York: UTC-5, UTC-4 from the second Sunday of March 07:00Z
\* to the first Sunday of November 06:00Z)
Zones == {"UTC", "America/New_York"}

FirstSundayOnOrAfter(dayNo) == dayNo + ((7 - Weekday(dayNo)) % 7)

DstStart(y) == (FirstSundayOnOrAfter(DaysFromCivil(y, 3, 1)) + 7) * TickDay + 7 * TickHour
DstEnd(y) == FirstSundayOnOrAfter(DaysFromCivil(y, 11, 1)) * TickDay + 6 * TickHour

\* zone.offset(ts): the zone's offset from UTC at the instant ts, in ticks
NewYorkOffset(ts, y) ==
  IF ts >= DstStart(y) /\ ts < DstEnd(y) THEN (0 - 4) * TickHour
  ELSE (0 - 5) * TickHour

ZoneOffset(zone, ts) ==
  IF zone = "America/New_York"
  THEN NewYorkOffset(ts, CivilFromDays(ts \div TickDay).year)
  ELSE 0

\* DateTime.fromMillis(ts, { zone }): the wall clock of ts in the zone
LocalFields(ts, zone) == UtcFields(ts + ZoneOffset(zone, ts))

\* luxon's fixOffset: the instant whose wall clock in the zone reads localTS,
\* from a first guess o of the offset; o2 is the offset at the first guess of
\* the instant, o3 the offset at the second; a wall-clock time in a gap moves
\* forward, an ambiguous one is resolved by the first guess
FixOffsetThird(localTS, o2, o3) ==
  IF o2 = o3 THEN localTS - o2
  ELSE localTS - (IF o2 < o3 THEN o2 ELSE o3)

FixOffsetSecond(localTS, o, zone, o2) ==
  IF o = o2 THEN localTS - o
  ELSE FixOffsetThird(localTS, o2, ZoneOffset(zone, localTS - o2))

FixOffset(localTS, o, zone) ==
  FixOffsetSecond(localTS, o, zone, ZoneOffset(zone, localTS - o))

\* DateTime.fromObject(fields, { zone }).isValid
ValidFields(f) == f.day <= DaysInMonth(f.year, f.month)

\* DateTime.fromObject(fields, { zone }).toMillis(); the first guess of the
\* offset is the zone's offset at the current time, now
FromObject(f, zone, now) ==
  FixOffset(UtcTS(f.year, f.month, f.day, f.hour, f.minute, f.second, f.ms),
            ZoneOffset(zone, now), zone)

\* ------------------------------------------------------------ recurrence rule
\* A rule is a record [frequency, interval, endDate, count, daysOfWeek,
\* dayOfMonth, weekAndDayOfMonth, timezone]; a numeric field that is not there
\* is Absent, a missing timezone is NoTz, a missing daysOfWeek is AbsentDays,
\* and weekAndDayOfMonth says whether the object is there.
AbsentDays == <<Absent>>
AbsentWD == [present |-> FALSE, dayOfWeek |-> Absent, weekOfMonth |-> Absent]

\* JavaScript truthiness of a number-or-undefined
Truthy(n) == n # Absent /\ n # 0

Min2(a, b) == IF a < b THEN a ELSE b

SeqToSet(s) == {s[i] : i \in 1..Len(s)}

\* ----------------------------------------------------------- luxon conversions
UtcOfClock(l) == UtcTS(l.year, l.month, l.day, l.hour, l.minute, l.second, 0)

convertLocalTimeInUTC(dateTime, timezone) == UtcOfClock(LocalFields(dateTime, timezone))

\* a variant that hands the UTC-labelled instant back as it is
convertUTCDateToLocalTime_asUTC(dateTime, timezone, now) == dateTime

convertUTCDateToLocalTime(dateTime, timezone, now) ==
  LET u == UtcFields(dateTime)
  IN  FromObject([u EXCEPT !.ms = 0], timezone, now)

\* ------------------------------------------------------------------- rrule
\* ruleOptions as generateOccurrences builds them; byweekdaySet / nthSet say
\* whether the option was given
RuleOptions(startTime, recurrence) ==
  LET tz == recurrence.timezone
      weekly == recurrence.frequency = "weekly" /\ recurrence.daysOfWeek # AbsentDays
      monthly == recurrence.frequency = "monthly"
      nth == monthly /\ recurrence.weekAndDayOfMonth.present
  IN  [freq |-> recurrence.frequency,
       interval |-> IF Truthy(recurrence.interval) THEN recurrence.interval ELSE 1,
       dtstart |-> convertLocalTimeInUTC(startTime, tz),
       count |-> IF Truthy(recurrence.count) THEN Min2(MAX_OCCURRENCES, recurrence.count)
                 ELSE IF Truthy(recurrence.endDate) THEN Absent
                 ELSE 1,
       until |-> IF ~Truthy(recurrence.count) /\ Truthy(recurrence.endDate)
                 THEN convertLocalTimeInUTC(recurrence.endDate, tz)
                 ELSE Absent,
       byweekdaySet |-> weekly,
       byweekday |-> IF weekly THEN SeqToSet(recurrence.daysOfWeek) ELSE {},
       nthSet |-> nth,
       nthWeekday |-> IF nth THEN recurrence.weekAndDayOfMonth.dayOfWeek ELSE Absent,
       nthWeek |-> IF nth THEN recurrence.weekAndDayOfMonth.weekOfMonth ELSE Absent,
       bymonthday |-> IF monthly /\ ~nth /\ Truthy(recurrence.dayOfMonth)
                      THEN recurrence.dayOfMonth ELSE Absent]

\* rrule's parseOptions: with no BYxxx part given, a weekly rule repeats on the
\* weekday of dtstart and a monthly rule on its day of the month; an empty
\* byweekday list counts as given and then selects nothing (every day passes)
NoByPart(o) == ~o.byweekdaySet /\ ~o.nthSet /\ o.bymonthday = Absent

EffWeekdays(o) ==
  IF o.byweekdaySet THEN o.byweekday
  ELSE IF NoByPart(o) /\ o.freq = "weekly" THEN {Weekday(o.dtstart \div TickDay)}
  ELSE {}

EffMonthday(o) ==
  IF o.bymonthday # Absent THEN o.bymonthday
  ELSE IF NoByPart(o) /\ o.freq = "monthly" THEN UtcFields(o.dtstart).day
  ELSE Absent

\* the day of month (y, m) the monthly rule selects, 0 when it selects none:
\* a BYMONTHDAY the month does not have is skipped, and so is an nth weekday
\* the month does not have
DayIfInMonth(d, len) == IF d >= 1 /\ d <= len THEN d ELSE 0

NthDay(first, off, wd, len) ==
  DayIfInMonth(off + ((7 - Weekday(first + off) + wd) % 7) + 1, len)

NthWeekdayOfMonth(y, m, wd, n) ==
  NthDay(DaysFromCivil(y, m, 1), (n - 1) * 7, wd, DaysInMonth(y, m))

MonthCandidate(o, y, m) ==
  IF o.nthSet THEN NthWeekdayOfMonth(y, m, o.nthWeekday, o.nthWeek)
  ELSE DayIfInMonth(EffMonthday(o), DaysInMonth(y, m))

\* the first n elements of a sequence
Take(s, n) == SubSeq(s, 1, Min2(n, Len(s)))

Range(a, n) == [i \in 1..n |-> a + i - 1]

\* the instant of a selected day: the day at the time of day of dtstart
AtDay(o, dayNo) == dayNo * TickDay + (o.dtstart % TickDay)

\* iteration ends at the first instant after until
Bounded(o, dates) ==
  IF o.count # Absent THEN Take(dates, o.count)
  ELSE SelectSeq(dates, LAMBDA t : t <= o.until)

\* FREQ=DAILY: every interval-th day from dtstart
DailyAll(o) ==
  LET n == IF o.count # Absent THEN o.count
           ELSE IF o.until < o.dtstart THEN 0
           ELSE (o.until - o.dtstart) \div (o.interval * TickDay) + 1
  IN  [k \in 1..n |-> o.dtstart + (k - 1) * o.interval * TickDay]

\* FREQ=WEEKLY, WKST=MO: the selected weekdays of every interval-th week,
\* counted from the week of dtstart, from dtstart on
MondayOf(dayNo) == FirstSundayOnOrAfter(dayNo) - 6

WeekSelected(o, dayNo) ==
  /\ ((MondayOf(dayNo) - MondayOf(o.dtstart \div TickDay)) \div 7) % o.interval = 0
  /\ (EffWeekdays(o) = {} \/ Weekday(dayNo) \in EffWeekdays(o))

WeeklyLast(o, startDay) ==
  IF o.count # Absent THEN MondayOf(startDay) + 7 * o.interval * (o.count + 1)
  ELSE o.until \div TickDay

WeeklyDays(o, startDay, lastDay) ==
  SelectSeq(Range(startDay, IF lastDay < startDay THEN 0 ELSE lastDay - startDay + 1),
            LAMBDA d : WeekSelected(o, d))

WeeklyAt(o, days) == Bounded(o, [i \in 1..Len(days) |-> AtDay(o, days[i])])

WeeklyAll(o) ==
  WeeklyAt(o, WeeklyDays(o, o.dtstart \div TickDay, WeeklyLast(o, o.dtstart \div TickDay)))

\* FREQ=MONTHLY: the selected day of every interval-th month, counted from
\* the month of dtstart, from dtstart on.  rrule follows the rule up to
\* MAXYEAR = 9999; the model follows it for MaxIdle months per occurrence asked
MonthIndex(f) == f.year * 12 + f.month - 1

MonthlyPeriods(o, m0) ==
  IF o.count # Absent THEN (o.count + 1) * MaxIdle
  ELSE IF o.until < o.dtstart THEN 0
  ELSE (MonthIndex(UtcFields(o.until)) - m0) \div o.interval + 1

DateOrAbsent(o, y, m, d) == IF d = 0 THEN Absent ELSE AtDay(o, DaysFromCivil(y, m, d))

InMonth(o, y, m) == DateOrAbsent(o, y, m, MonthCandidate(o, y, m))

MonthlyFrom(o, m0, periods) ==
  Bounded(o, SelectSeq([k \in 1..periods |->
                          InMonth(o, (m0 + (k - 1) * o.interval) \div 12,
                                  ((m0 + (k - 1) * o.interval) % 12) + 1)],
                       LAMBDA t : t # Absent /\ t >= o.dtstart))

MonthlyStart(o, m0) == MonthlyFrom(o, m0, MonthlyPeriods(o, m0))

MonthlyAll(o) == MonthlyStart(o, MonthIndex(UtcFields(o.dtstart)))

\* new RRule(ruleOptions).all()
RRuleAll(o) ==
  IF o.freq = "daily" THEN DailyAll(o)
  ELSE IF o.freq = "weekly" THEN WeeklyAll(o)
  ELSE MonthlyAll(o)

\* ------------------------------------------------- generateYearlyOccurrences
\* the candidate of one year: the anchor's local month, day and time of day
\* a variant that takes the month's last day when the day is missing
YearCandidate_clamped(start, y) ==
  [start EXCEPT !.year = y, !.day = Min2(start.day, DaysInMonth(y, start.month))]

YearCandidate(start, y) == [start EXCEPT !.year = y]

YearlyAt(valid, tz, now) == [i \in 1..Len(valid) |-> FromObject(valid[i], tz, now)]

\* for (i = 0; i < countLimit; i++): year + i, invalid dates dropped
YearlyByCount(start, tz, now, countLimit) ==
  YearlyAt(SelectSeq([i \in 1..countLimit |-> YearCandidate(start, start.year + i - 1)],
                     ValidFields),
           tz, now)

\* while (currentYear <= endDateTime.year): kept when valid and <= endDate,
\* the loop left at the first occurrence after endDate, else year += interval
YearlyUpTo(start, tz, now, step, endDate, n) ==
  SelectSeq(YearlyAt(SelectSeq([i \in 1..n |->
                                  YearCandidate(start, start.year + (i - 1) * step)],
                               ValidFields),
                     tz, now),
            LAMBDA t : t <= endDate)

YearlySteps(start, step, endYear) ==
  IF endYear < start.year THEN 0 ELSE (endYear - start.year) \div step + 1

YearlyByEndDate(start, tz, now, step, endDate) ==
  YearlyUpTo(start, tz, now, step, endDate,
             YearlySteps(start, step, LocalFields(endDate, tz).year))

YearlyFrom(start, recurrence, now) ==
  IF Truthy(recurrence.count)
  THEN YearlyByCount(start, recurrence.timezone, now,
                     IF recurrence.count > 0 /\ recurrence.count <= 200
                     THEN recurrence.count ELSE 200)
  ELSE IF Truthy(recurrence.endDate)
  THEN YearlyByEndDate(start, recurrence.timezone, now,
                       IF Truthy(recurrence.interval) THEN recurrence.interval ELSE 1,
                       recurrence.endDate)
  ELSE IF ValidFields(start) THEN <<FromObject(start, recurrence.timezone, now)>>
  ELSE <<>>

\* const timezone = recurrence.timezone || 'UTC'
OrUTC(tz) == IF tz = NoTz THEN "UTC" ELSE tz

generateYearlyOccurrences(startTime, recurrence, now) ==
  YearlyFrom(LocalFields(startTime, OrUTC(recurrence.timezone)),
             [recurrence EXCEPT !.timezone = OrUTC(@)], now)

\* ------------------------------------------------------- generateOccurrences
\* The result is [ok, list]: ok is FALSE when the function throws (no
\* timezone; a monthly rule whose weekAndDayOfMonth object has no dayOfWeek,
\* for which weekdayMap[undefined].nth(...) is a TypeError).
Thrown == [ok |-> FALSE, list |-> <<>>]

\* dates.map((date) => convertUTCDateToLocalTime(date.getTime(), timezone))
listOfTimestamps(dates, timezone, now) ==
  [i \in 1..Len(dates) |-> convertUTCDateToLocalTime(dates[i], timezone, now)]

\* a variant that tells the yearly rules apart before it looks at the timezone
generateOccurrences_yearlyFirst(startTime, recurrence, now) ==
  IF recurrence.frequency = "yearly"
  THEN [ok |-> TRUE, list |-> generateYearlyOccurrences(startTime, recurrence, now)]
  ELSE IF recurrence.timezone = NoTz THEN Thrown
  ELSE IF recurrence.frequency = "monthly" /\ recurrence.weekAndDayOfMonth.present
          /\ recurrence.weekAndDayOfMonth.dayOfWeek = Absent
  THEN Thrown
  ELSE [ok |-> TRUE,
        list |-> listOfTimestamps(RRuleAll(RuleOptions(startTime, recurrence)),
                                  recurrence.timezone, now)]

generateOccurrences(startTime, recurrence, now) ==
  IF recurrence.timezone = NoTz THEN Thrown
  ELSE IF recurrence.frequency = "yearly"
  THEN [ok |-> TRUE, list |-> generateYearlyOccurrences(startTime, recurrence, now)]
  ELSE IF recurrence.frequency = "monthly" /\ recurrence.weekAndDayOfMonth.present
          /\ recurrence.weekAndDayOfMonth.dayOfWeek = Absent
  THEN Thrown
  ELSE [ok |-> TRUE,
        list |-> listOfTimestamps(RRuleAll(RuleOptions(startTime, recurrence)),
                                  recurrence.timezone, now)]

\* ======================================================= generator inputs
Rule(f, i, c, e, tz) ==
  [frequency |-> f, interval |-> i, endDate |-> e, count |-> c,
   daysOfWeek |-> AbsentDays, dayOfMonth |-> Absent,
   weekAndDayOfMonth |-> AbsentWD, timezone |-> tz]

\* the current time read by luxon: one instant in winter, one in summer
NowSet == {UtcTS(2024, 1, 15, 12, 0, 0, 0), UtcTS(2024, 7, 15, 12, 0, 0, 0)}

\* anchors: a Monday morning; the 31st with seconds and milliseconds; a leap
\* day; a February day; 02:01 and 01:01 New York time on the eves of the
\* two daylight-saving changes of 2024
GenAnchors ==
  { UtcTS(2024, 1, 1, 9, 0, 0, 0), UtcTS(2024, 1, 31, 9, 1, 1, 1),
    UtcTS(2024, 2, 29, 22, 0, 1, 0), UtcTS(2024, 2, 5, 9, 0, 0, 0),
    UtcTS(2024, 3, 9, 7, 1, 0, 0), UtcTS(2024, 11, 2, 5, 1, 0, 1) }

\* (a yearly cycle of months is not combined with an nth weekday: the fifth
\* Monday of a February comes once in 28 years, beyond MaxIdle)
GenIntervals == {Absent, 2, 12}
\* (count, endDate): neither; count 0 (the stored default); a small count;
\* a count above the ceiling; both; an end date before the anchor, some weeks
\* after it, and more than 200 days after it
GenTerminals(a) ==
  { <<Absent, Absent>>, <<0, Absent>>, <<3, Absent>>, <<201, Absent>>,
    <<3, a + 40 * TickDay>>, <<Absent, a - 3 * TickDay>>,
    <<Absent, a + 40 * TickDay + 1>>, <<Absent, a + 230 * TickDay>> }
GenZones == Zones \cup {NoTz}
GenDaysOfWeek == {AbsentDays, <<>>, <<3, 1>>, <<0, 0>>}
GenDayOfMonth == {Absent, 3, 29, 31}
GenWeekAndDay ==
  { [present |-> TRUE, dayOfWeek |-> 2, weekOfMonth |-> 2],
    [present |-> TRUE, dayOfWeek |-> 1, weekOfMonth |-> 5],
    [present |-> TRUE, dayOfWeek |-> Absent, weekOfMonth |-> Absent] }

GenRules(a) ==
  LET Base(f) == {Rule(f, i, t[1], t[2], tz) :
                    i \in GenIntervals, t \in GenTerminals(a), tz \in GenZones}
  IN  Base("daily") \cup Base("yearly")
      \cup {[r EXCEPT !.daysOfWeek = d] : r \in Base("weekly"), d \in GenDaysOfWeek}
      \cup {[r EXCEPT !.dayOfMonth = d] : r \in Base("monthly"), d \in GenDayOfMonth}
      \cup {[r EXCEPT !.weekAndDayOfMonth = w] :
              r \in {x \in Base("monthly") : x.interval # 12}, w \in GenWeekAndDay}

\* the current time matters to luxon only in a zone with daylight saving
GenNows(r) ==
  IF r.timezone = "America/New_York" THEN NowSet ELSE {UtcTS(2024, 1, 15, 12, 0, 0, 0)}

VARIABLES genIn, genOut, genDone

genVars == <<genIn, genOut, genDone>>

\* =========================================================== the collections
\* A Task is [id, userId, seriesId, title, startTime, endTime, dueTime,
\* completeTime, isRecurring]; seriesId is Absent for a standalone task.
\* A Series is [id, userId, title, recurrence, firstOccurrenceAt,
\* lastOccurrenceAt, parentSeriesId, splitFromOccurrenceOn].
\* title stands for the non-scheduling fields (title, description, status, ...).
VARIABLES tasks, series, nextId, ops, last

\* the position of a conversion handled store step by store step
VARIABLES conv

\* the path of the delete that the last request repeated, "none" when the last
\* request did not repeat the request before it
VARIABLES retried

\* a call of compareTwoRecurrence: its arguments, its result, whether it ran
VARIABLES cmp
\* the two handlers that run at once: for each its kind, the await it has
\* reached and the values it holds in local constants
VARIABLES run

pureVars == <<genIn, genOut, genDone, cmp>>

engVars == <<tasks, series, nextId, ops, last>>
vars == <<tasks, series, nextId, ops, last, conv, retried, run, genIn, genOut, genDone, cmp>>

\* ------------------------------------------------------------------ bounds
\* requests handled in one behaviour
MaxOps == 2

Users == {1, 2}
NoTitle == ""
NoRule == Rule("none", Absent, Absent, Absent, NoTz)
NoTask ==
  [id |-> Absent, userId |-> Absent, seriesId |-> Absent, title |-> NoTitle,
   startTime |-> Absent, endTime |-> Absent, dueTime |-> Absent,
   completeTime |-> Absent, isRecurring |-> FALSE]

\* A payload is the request body without the mode: a field that is not sent is
\* Absent (NoTitle, NoRule, FALSE for isRecurring)
NoPayload ==
  [title |-> NoTitle, startTime |-> Absent, endTime |-> Absent, dueTime |-> Absent,
   completeTime |-> Absent, isRecurring |-> FALSE, recurrence |-> NoRule,
   userId |-> Absent, seriesId |-> Absent]

MinOf(S) == CHOOSE x \in S : \A y \in S : x <= y
MaxOf(S) == CHOOSE x \in S : \A y \in S : x >= y

\* --------------------------------------------------------- mongoose schemas
\* RecursionSchema as stored: interval defaults to 1, count to 0, an array
\* path to [], and a nested path (weekAndDayOfMonth) always reads as an object
Stored(r) ==
  [r EXCEPT !.interval = IF r.interval = Absent THEN 1 ELSE r.interval,
            !.count = IF r.count = Absent THEN 0 ELSE r.count,
            !.daysOfWeek = IF r.daysOfWeek = AbsentDays THEN <<>> ELSE r.daysOfWeek,
            !.weekAndDayOfMonth = [r.weekAndDayOfMonth EXCEPT !.present = TRUE]]

\* series.save() validates: recurrence.timezone is required
SeriesValid(r) == r.timezone # NoTz

\* ------------------------------------------------------ compareTwoRecurrence
Occurs(s, v) == Cardinality({i \in 1..Len(s) : s[i] = v})

\* a variant that does not sort
compareArrays_ordered(arr1, arr2) == arr1 = arr2

compareArrays(arr1, arr2) ==
  IF arr1 = AbsentDays \/ arr2 = AbsentDays THEN arr1 = arr2
  ELSE /\ Len(arr1) = Len(arr2)
       /\ \A v \in SeqToSet(arr1) \cup SeqToSet(arr2) : Occurs(arr1, v) = Occurs(arr2, v)

compareWeekAndDayOfMonth(obj1, obj2) ==
  IF ~obj1.present \/ ~obj2.present THEN obj1.present = obj2.present
  ELSE obj1.dayOfWeek = obj2.dayOfWeek /\ obj1.weekOfMonth = obj2.weekOfMonth

compareTwoRecurrence(r1, r2) ==
  /\ r1.frequency = r2.frequency
  /\ r1.interval = r2.interval
  /\ r1.endDate = r2.endDate
  /\ r1.count = r2.count
  /\ r1.dayOfMonth = r2.dayOfMonth
  /\ r1.timezone = r2.timezone
  /\ compareArrays(r1.daysOfWeek, r2.daysOfWeek)
  /\ compareWeekAndDayOfMonth(r1.weekAndDayOfMonth, r2.weekAndDayOfMonth)

\* ------------------------------------------------------ createTasksFromSeries
\* a variant that gives every Task the template's endTime
createTasksFromSeries_sameEnd(seriesId, user, template, occurrences, firstId) ==
  {[id |-> firstId + i - 1, userId |-> user, seriesId |-> seriesId,
    title |-> template.title, startTime |-> occurrences[i],
    endTime |-> template.endTime, dueTime |-> template.dueTime,
    completeTime |-> Absent, isRecurring |-> TRUE] : i \in 1..Len(occurrences)}

\* one Task per occurrence, with ids nextId + 1 .. nextId + n after the
\* Series' id nextId
createTasksFromSeries(seriesId, user, template, occurrences, firstId) ==
  LET baseDuration == template.endTime - template.startTime
  IN  {[id |-> firstId + i - 1, userId |-> user, seriesId |-> seriesId,
        title |-> template.title, startTime |-> occurrences[i],
        endTime |-> occurrences[i] + baseDuration, dueTime |-> template.dueTime,
        completeTime |-> Absent, isRecurring |-> TRUE] : i \in 1..Len(occurrences)}

\* a variant that leaves the bounds unset
WithBounds_unset(s, occurrences) == s

\* series.firstOccurrenceAt / lastOccurrenceAt = Math.min / Math.max(...occurrences)
WithBounds(s, occurrences) ==
  IF Len(occurrences) > 0
  THEN [s EXCEPT !.firstOccurrenceAt = MinOf(SeqToSet(occurrences)),
                 !.lastOccurrenceAt = MaxOf(SeqToSet(occurrences))]
  ELSE s

NewSeries(id, user, title, recurrence) ==
  [id |-> id, userId |-> user, title |-> title, recurrence |-> Stored(recurrence),
   firstOccurrenceAt |-> Absent, lastOccurrenceAt |-> Absent,
   parentSeriesId |-> Absent, splitFromOccurrenceOn |-> Absent]

\* what the last request was and which path it took
Done(op, user, id, mode, payload, path, target, newSeries) ==
  [op |-> op, user |-> user, id |-> id, mode |-> mode, payload |-> payload,
   path |-> path, target |-> target, newSeries |-> newSeries]

Members(ts, sid) == {t \in ts : t.seriesId = sid}
MembersOf(ts, sid, user) == {t \in ts : t.seriesId = sid /\ t.userId = user}
StartTimes(ts) == {t.startTime : t \in ts}

\* a variant that removes every task of the same series
findByIdAndDelete_series(ts, id) ==
  {t \in ts : ~\E x \in ts : x.id = id /\ x.seriesId = t.seriesId}

\* a variant that removes the earliest task of the target's series in its place
findByIdAndDelete_earliest(ts, id) ==
  LET fam == {t \in ts : \E x \in ts : /\ x.id = id
                                       /\ x.seriesId = t.seriesId
                                       /\ x.userId = t.userId}
  IN  IF fam = {} THEN ts
      ELSE ts \ {CHOOSE t \in fam : \A y \in fam : t.startTime <= y.startTime}

\* Task.findByIdAndDelete(id)
findByIdAndDelete(ts, id) == {t \in ts : t.id # id}

\* a variant that leaves the series in place
seriesFindByIdAndDelete_kept(ss, id) == ss

\* Series.findByIdAndDelete(id): the filter is the id alone
seriesFindByIdAndDelete(ss, id) == {s \in ss : s.id # id}

\* a variant with $gt for $gte
thisAndFollowing_strict(ts, seriesId, userId, startTime) ==
  {t \in ts : t.seriesId = seriesId /\ t.userId = userId /\ t.startTime > startTime}

\* the filter { seriesId, userId, startTime: { $gte: startTime } }
thisAndFollowing(ts, seriesId, userId, startTime) ==
  {t \in ts : t.seriesId = seriesId /\ t.userId = userId /\ t.startTime >= startTime}

\* ------------------------------------------------------------------ createTask
\* payloads carry title, startTime and endTime
createTask(user, payload, now) ==
  IF ~payload.isRecurring \/ payload.recurrence = NoRule
  THEN /\ tasks' = tasks \cup
                     {[id |-> nextId, userId |-> user, seriesId |-> payload.seriesId,
                       title |-> payload.title, startTime |-> payload.startTime,
                       endTime |-> payload.endTime, dueTime |-> payload.dueTime,
                       completeTime |-> payload.completeTime, isRecurring |-> FALSE]}
       /\ nextId' = nextId + 1
       /\ UNCHANGED series
       /\ last' = Done("create", user, nextId, "none", payload, "standalone", NoTask, Absent)
  ELSE IF ~SeriesValid(payload.recurrence)
  THEN /\ UNCHANGED <<tasks, series, nextId>>
       /\ last' = Done("create", user, Absent, "none", payload, "invalid", NoTask, Absent)
  ELSE LET s == NewSeries(nextId, user, payload.title, payload.recurrence)
           gen == generateOccurrences(payload.startTime, payload.recurrence, now)
           created == createTasksFromSeries(s.id, user, payload, gen.list, nextId + 1)
       IN  IF ~gen.ok
           THEN /\ series' = series \cup {s}
                /\ nextId' = nextId + 1
                /\ UNCHANGED tasks
                /\ last' = Done("create", user, Absent, "none", payload, "thrown", NoTask, s.id)
           ELSE /\ series' = series \cup {WithBounds(s, gen.list)}
                /\ tasks' = tasks \cup created
                /\ nextId' = nextId + 1 + Len(gen.list)
                /\ last' = Done("create", user, Absent, "none", payload, "recurring", NoTask, s.id)

\* -------------------------------------------------------------- deleteTaskById
\* req.body.deleteMode || req.query.deleteMode || 'single'; the switch sends
\* 'single' and every unrecognised mode to the same branch
deleteTaskById(user, id, deleteMode) ==
  LET found == {t \in tasks : t.id = id /\ t.userId = user}
      task == CHOOSE t \in found : TRUE
      mode == IF deleteMode = "none" THEN "single" ELSE deleteMode
      rest == tasks \ thisAndFollowing(tasks, task.seriesId, user, task.startTime)
      remaining == MembersOf(rest, task.seriesId, user)
  IN  /\ UNCHANGED nextId
      /\ IF found = {}
         THEN /\ UNCHANGED <<tasks, series>>
              /\ last' = Done("delete", user, id, deleteMode, NoPayload, "notfound", NoTask, Absent)
         ELSE IF mode \notin {"all", "following"} \/ task.seriesId = Absent
         THEN /\ tasks' = findByIdAndDelete(tasks, task.id)
              /\ UNCHANGED series
              /\ last' = Done("delete", user, id, deleteMode, NoPayload, "single", task, Absent)
         ELSE IF mode = "all"
         THEN /\ tasks' = tasks \ MembersOf(tasks, task.seriesId, user)
              /\ series' = seriesFindByIdAndDelete(series, task.seriesId)
              /\ last' = Done("delete", user, id, deleteMode, NoPayload, "all", task, Absent)
         ELSE /\ tasks' = rest
              /\ series' =
                   IF remaining # {}
                   THEN {IF s.id = task.seriesId
                         THEN [s EXCEPT !.lastOccurrenceAt = MaxOf(StartTimes(remaining))]
                         ELSE s : s \in series}
                   ELSE seriesFindByIdAndDelete(series, task.seriesId)
              /\ last' = Done("delete", user, id, deleteMode, NoPayload, "following", task, Absent)

\* -------------------------------------------------------------- updateTaskById
\* a || b on numbers and on strings
Or(a, b) == IF Truthy(a) THEN a ELSE b
OrTitle(a, b) == IF a # NoTitle THEN a ELSE b

\* Task.findByIdAndUpdate(id, payload): every field the payload carries is set
Apply(t, p) ==
  [t EXCEPT !.title = IF p.title # NoTitle THEN p.title ELSE @,
            !.startTime = IF p.startTime # Absent THEN p.startTime ELSE @,
            !.endTime = IF p.endTime # Absent THEN p.endTime ELSE @,
            !.dueTime = IF p.dueTime # Absent THEN p.dueTime ELSE @,
            !.completeTime = IF p.completeTime # Absent THEN p.completeTime ELSE @,
            !.userId = IF p.userId # Absent THEN p.userId ELSE @,
            !.seriesId = IF p.seriesId # Absent THEN p.seriesId ELSE @]

\* a variant that keeps the scheduling fields
fieldsToApply_all(payload) == payload

\* the payload without recurrence, startTime, endTime, dueTime, completeTime
fieldsToApply(payload) ==
  [payload EXCEPT !.recurrence = NoRule, !.startTime = Absent, !.endTime = Absent,
                  !.dueTime = Absent, !.completeTime = Absent]

\* a variant that takes the date of the payload as well
AlignStart_payloadDate(dateFrom, timeFrom, tz, now) == timeFrom

\* the date of dateFrom with the time of day of timeFrom, both read in tz
AlignStart(dateFrom, timeFrom, tz, now) ==
  LET dateInTz == LocalFields(dateFrom, tz)
      timeInTz == LocalFields(timeFrom, tz)
  IN  FromObject([dateInTz EXCEPT !.hour = timeInTz.hour, !.minute = timeInTz.minute,
                                  !.second = timeInTz.second, !.ms = timeInTz.ms], tz, now)

recurrenceChanged(payload, old) ==
  payload.recurrence # NoRule /\ ~compareTwoRecurrence(payload.recurrence, old.recurrence)

timeChanged(payload, task) ==
  \/ Truthy(payload.startTime) /\ payload.startTime # task.startTime
  \/ Truthy(payload.endTime) /\ payload.endTime # task.endTime

\* CASE 1 with payload.recurrence: a standalone task becomes a series
convertToSeries(user, task, mode, payload, now) ==
  LET title == OrTitle(payload.title, task.title)
      merged == IF payload.startTime # Absent THEN payload.startTime ELSE task.startTime
      startTime == Or(merged, task.startTime)
      template == [title |-> title, startTime |-> startTime,
                   endTime |-> IF payload.endTime # Absent THEN payload.endTime ELSE task.endTime,
                   dueTime |-> IF payload.dueTime # Absent THEN payload.dueTime ELSE task.dueTime]
      s == NewSeries(nextId, user, title, payload.recurrence)
      gen == generateOccurrences(startTime, payload.recurrence, now)
      created == createTasksFromSeries(s.id, user, template, gen.list, nextId + 1)
  IN  IF ~SeriesValid(payload.recurrence)
      THEN /\ UNCHANGED <<tasks, series, nextId>>
           /\ last' = Done("update", user, task.id, mode, payload, "convert-invalid", task, Absent)
      ELSE IF ~gen.ok
      THEN /\ series' = series \cup {s}
           /\ nextId' = nextId + 1
           /\ UNCHANGED tasks
           /\ last' = Done("update", user, task.id, mode, payload, "convert-thrown", task, s.id)
      ELSE /\ tasks' = findByIdAndDelete(tasks, task.id) \cup created
           /\ series' = series \cup {WithBounds(s, gen.list)}
           /\ nextId' = nextId + 1 + Len(gen.list)
           /\ last' = Done("update", user, task.id, mode, payload, "convert", task, s.id)

\* case 'all' with a changed rule or time: a brand new series replaces the old
\* the start from which the old series is regenerated: its recorded first
\* occurrence, the earliest task where none is recorded
firstStartOf(old, mine) ==
  IF Truthy(old.firstOccurrenceAt) THEN old.firstOccurrenceAt
  ELSE MinOf(StartTimes(mine))

\* startTime handed to generateOccurrences in case 'all'
anchorOfAll(firstStart, newRecurrence, payload, now) ==
  IF newRecurrence.timezone = NoTz \/ ~Truthy(payload.startTime) THEN firstStart
  ELSE AlignStart(firstStart, payload.startTime, newRecurrence.timezone, now)

regenerateAll(user, task, old, mode, payload, now) ==
  LET mine == MembersOf(tasks, old.id, user)
      firstStart == firstStartOf(old, mine)
      newRecurrence == IF payload.recurrence # NoRule THEN payload.recurrence
                       ELSE old.recurrence
      title == OrTitle(payload.title, old.title)
      newSeries == NewSeries(nextId, user, title, newRecurrence)
      tz == newRecurrence.timezone
      anchor == anchorOfAll(firstStart, newRecurrence, payload, now)
      gen == generateOccurrences(anchor, newRecurrence, now)
      baseDuration == IF Truthy(payload.endTime) /\ Truthy(payload.startTime)
                      THEN payload.endTime - payload.startTime ELSE 0
      template == [title |-> title, startTime |-> firstStart,
                   endTime |-> firstStart + baseDuration, dueTime |-> Absent]
      created == createTasksFromSeries(newSeries.id, user, template, gen.list, nextId + 1)
  IN  IF ~SeriesValid(newRecurrence)
      THEN /\ UNCHANGED <<tasks, series, nextId>>
           /\ last' = Done("update", user, task.id, mode, payload, "all-invalid", task, Absent)
      ELSE IF ~gen.ok
      THEN /\ series' = series \cup {newSeries}
           /\ nextId' = nextId + 1
           /\ UNCHANGED tasks
           /\ last' = Done("update", user, task.id, mode, payload, "all-thrown", task, newSeries.id)
      ELSE /\ tasks' = (tasks \ mine) \cup created
           /\ series' = seriesFindByIdAndDelete(series, old.id)
                        \cup {WithBounds(newSeries, gen.list)}
           /\ nextId' = nextId + 1 + Len(gen.list)
           /\ last' = Done("update", user, task.id, mode, payload, "all-changed", task, newSeries.id)

bulkUpdateOtherFieldsInTasksInSeries(userId, seriesId, payload) ==
  IF fieldsToApply(payload) = NoPayload THEN tasks
  ELSE {IF t.userId = userId /\ t.seriesId = seriesId
        THEN Apply(t, fieldsToApply(payload)) ELSE t : t \in tasks}

\* case 'following' with a changed rule or time: the series is split
splitFollowing(user, task, old, mode, payload, now) ==
  LET newRecurrence == IF payload.recurrence # NoRule THEN payload.recurrence
                       ELSE old.recurrence
      title == OrTitle(payload.title, old.title)
      newSeries == NewSeries(nextId, user, title, newRecurrence)
      tz == newRecurrence.timezone
      startForNew == IF tz = NoTz \/ ~Truthy(payload.startTime) THEN task.startTime
                     ELSE AlignStart(task.startTime, payload.startTime, tz, now)
      baseDuration == IF Truthy(payload.endTime) /\ Truthy(payload.startTime)
                      THEN payload.endTime - payload.startTime
                      ELSE IF Truthy(task.endTime) /\ Truthy(task.startTime)
                      THEN task.endTime - task.startTime ELSE 0
      template == [title |-> title, startTime |-> startForNew,
                   endTime |-> startForNew + baseDuration, dueTime |-> Absent]
      gen == generateOccurrences(startForNew, newRecurrence, now)
      kept == tasks \ thisAndFollowing(tasks, old.id, user, task.startTime)
      created == createTasksFromSeries(newSeries.id, user, template, gen.list, nextId + 1)
      inserted == kept \cup created
      remainingOld == MembersOf(inserted, old.id, user)
      fields == fieldsToApply(payload)
  IN  IF ~SeriesValid(newRecurrence)
      THEN /\ UNCHANGED <<tasks, series, nextId>>
           /\ last' = Done("update", user, task.id, mode, payload, "following-invalid", task, Absent)
      ELSE IF ~gen.ok
      THEN /\ series' = series \cup {newSeries}
           /\ nextId' = nextId + 1
           /\ UNCHANGED tasks
           /\ last' = Done("update", user, task.id, mode, payload, "following-thrown", task, newSeries.id)
      ELSE /\ tasks' =
                IF fields = NoPayload THEN inserted
                ELSE {IF t.userId = user
                         /\ (t.seriesId = newSeries.id
                             \/ (t.seriesId = old.id /\ t.startTime >= task.startTime))
                      THEN Apply(t, fields) ELSE t : t \in inserted}
           /\ series' =
                (IF remainingOld # {}
                 THEN {IF s.id = old.id
                       THEN [s EXCEPT !.firstOccurrenceAt = MinOf(StartTimes(remainingOld)),
                                      !.lastOccurrenceAt = MaxOf(StartTimes(remainingOld))]
                       ELSE s : s \in series}
                 ELSE seriesFindByIdAndDelete(series, old.id))
                \cup {WithBounds(newSeries, gen.list)}
           /\ nextId' = nextId + 1 + Len(gen.list)
           /\ last' = Done("update", user, task.id, mode, payload, "following-changed", task, newSeries.id)

\* a variant that drops the scheduling fields as well
singleTaskUpdateData_noTimes(payload) == fieldsToApply(payload)

\* { ...payload } without recurrence
singleTaskUpdateData(payload) == [payload EXCEPT !.recurrence = NoRule]

\* req.body.updateMode || req.query.updateMode || 'single'
updateTaskById(user, id, updateMode, payload, now) ==
  LET found == {t \in tasks : t.id = id /\ t.userId = user}
      task == CHOOSE t \in found : TRUE
      mode == IF updateMode = "none" THEN "single" ELSE updateMode
      sfound == {s \in series : s.id = task.seriesId}
      old == CHOOSE s \in sfound : TRUE
      changed == recurrenceChanged(payload, old) \/ timeChanged(payload, task)
      Plain(path, p) ==
        /\ tasks' = {IF t.id = task.id THEN Apply(t, p) ELSE t : t \in tasks}
        /\ UNCHANGED <<series, nextId>>
        /\ last' = Done("update", user, id, updateMode, payload, path, task, Absent)
  IN  IF found = {}
      THEN /\ UNCHANGED <<tasks, series, nextId>>
           /\ last' = Done("update", user, id, updateMode, payload, "notfound", NoTask, Absent)
      ELSE IF task.seriesId = Absent
      THEN IF payload.recurrence # NoRule
           THEN convertToSeries(user, task, updateMode, payload, now)
           ELSE Plain("plain", payload)
      ELSE IF sfound = {}
      THEN /\ UNCHANGED <<tasks, series, nextId>>
           /\ last' = Done("update", user, id, updateMode, payload, "noseries", task, Absent)
      ELSE IF mode \notin {"all", "following"}
      THEN Plain("single", singleTaskUpdateData(payload))
      ELSE IF mode = "all"
      THEN IF changed
           THEN regenerateAll(user, task, old, updateMode, payload, now)
           ELSE /\ tasks' = bulkUpdateOtherFieldsInTasksInSeries(user, old.id, payload)
                /\ UNCHANGED <<series, nextId>>
                /\ last' = Done("update", user, id, updateMode, payload, "all-unchanged", task, Absent)
      ELSE IF changed
           THEN splitFollowing(user, task, old, updateMode, payload, now)
           ELSE /\ tasks' =
                     IF fieldsToApply(payload) = NoPayload THEN tasks
                     ELSE {IF t \in thisAndFollowing(tasks, old.id, user, task.startTime)
                           THEN Apply(t, fieldsToApply(payload)) ELSE t : t \in tasks}
                /\ UNCHANGED <<series, nextId>>
                /\ last' = Done("update", user, id, updateMode, payload, "following-unchanged", task, Absent)

\* ============================================================ the requests
Anchor == UtcTS(2024, 1, 1, 9, 0, 0, 0)

\* three daily occurrences, as a client first sends the rule
Daily3 == Rule("daily", Absent, 3, Absent, "UTC")
\* two weekly occurrences
Weekly2 == Rule("weekly", 1, 2, Absent, "UTC")
\* a yearly rule whose end date is before its anchor: no occurrence
Ended == Rule("yearly", Absent, Absent, Anchor - TickDay, "UTC")
\* neither count nor end date: one occurrence
Once == Rule("daily", Absent, Absent, Absent, "UTC")
\* a rule without a timezone
Zoneless == Rule("daily", Absent, 2, Absent, NoTz)

OtherUser(user) == CHOOSE u \in Users : u # user

Modes == {"none", "single", "all", "following", "other"}

\* bodies of a create: a task; a task with a rule and no isRecurring flag; the
\* task with the flag and each of four rules
CreatePayloads ==
  LET one == [NoPayload EXCEPT !.title = "a", !.startTime = Anchor,
                               !.endTime = Anchor + TickHour]
  IN  {one, [one EXCEPT !.recurrence = Daily3]}
      \cup {[one EXCEPT !.isRecurring = TRUE, !.recurrence = r] :
              r \in {Daily3, Once, Ended, Zoneless}}

\* bodies of an update of task t: a new title; a completion time only; the
\* task sent back with a new title, due and completion time; a start three
\* days and an hour earlier;
\* a later start and a longer duration; another rule; the stored rule sent
\* back; the rule as first sent; a rule without occurrences; a rule without
\* timezone; a new title and another owner
UpdatePayloads(t, user) ==
  IF t = NoTask THEN {[NoPayload EXCEPT !.title = "b"]}
  ELSE
  { [NoPayload EXCEPT !.title = "b"],
    [NoPayload EXCEPT !.completeTime = t.startTime + TickHour],
    [NoPayload EXCEPT !.title = "b", !.startTime = t.startTime, !.endTime = t.endTime,
                      !.dueTime = t.startTime + TickDay,
                      !.completeTime = t.startTime + TickHour],
    [NoPayload EXCEPT !.startTime = t.startTime - 3 * TickDay - TickHour],
    [NoPayload EXCEPT !.title = "b", !.startTime = t.startTime + TickHour,
                      !.endTime = t.startTime + 3 * TickHour],
    [NoPayload EXCEPT !.recurrence = Weekly2],
    [NoPayload EXCEPT !.recurrence = Stored(Daily3)],
    [NoPayload EXCEPT !.recurrence = Daily3],
    [NoPayload EXCEPT !.recurrence = Ended],
    [NoPayload EXCEPT !.recurrence = Zoneless],
    [NoPayload EXCEPT !.title = "b", !.userId = OtherUser(user)] }

\* the clock reading during a request; the rules of the requests are in UTC,
\* where the reading plays no part
RequestClock == {UtcTS(2024, 1, 15, 12, 0, 0, 0)}

\* ids a request can name: every task's, and one that no task has
Ids == {t.id : t \in tasks} \cup {0}

\* the id a client repeats: that of the delete handled just before
RetryIds == IF last.op = "delete" THEN {last.id} ELSE {}

TaskOf(user, id) ==
  IF \E t \in tasks : t.id = id /\ t.userId = user
  THEN CHOOSE t \in tasks : t.id = id /\ t.userId = user
  ELSE NoTask

NoRequest == Done("none", Absent, Absent, "none", NoPayload, "none", NoTask, Absent)

\* no conversion has begun
NoConversion ==
  [pc |-> "idle", user |-> Absent, task |-> NoTask, mode |-> "none",
   payload |-> NoPayload, seriesId |-> Absent,
   template |-> [title |-> NoTitle, startTime |-> Absent, endTime |-> Absent,
                 dueTime |-> Absent],
   occurrences |-> <<>>]

\* the two handlers
Handlers == {1, 2}

\* a handler that has not begun
NoHandler ==
  [kind |-> "none", pc |-> "idle", user |-> Absent, task |-> NoTask,
   payload |-> NoPayload, old |-> NewSeries(Absent, Absent, NoTitle, NoRule),
   newSeries |-> Absent,
   template |-> [title |-> NoTitle, startTime |-> Absent, endTime |-> Absent,
                 dueTime |-> Absent],
   occurrences |-> <<>>, remaining |-> {}, overlap |-> FALSE]

GenIdle == [startTime |-> Anchor, recurrence |-> Daily3, now |-> Anchor]

CmpIdle == [r1 |-> NoRule, r2 |-> NoRule, out |-> FALSE, done |-> TRUE]

\* whether the request just handled repeats the delete handled before it
Retried ==
  IF /\ last'.op = "delete" /\ last.op = "delete"
     /\ last'.user = last.user /\ last'.id = last.id /\ last'.mode = last.mode
  THEN last.path
  ELSE "none"

Init ==
  /\ tasks = {}
  /\ series = {}
  /\ nextId = 1
  /\ ops = 0
  /\ last = NoRequest
  /\ conv = NoConversion
  /\ run = [h \in Handlers |-> NoHandler]
  /\ retried = "none"
  /\ cmp = CmpIdle
  /\ genIn = GenIdle
  /\ genOut = Thrown
  /\ genDone = TRUE

CreateRequest ==
  \E user \in Users, payload \in CreatePayloads, now \in RequestClock :
    createTask(user, payload, now)

UpdateRequest ==
  \E user \in Users, id \in Ids, mode \in Modes, now \in RequestClock :
    \E payload \in UpdatePayloads(TaskOf(user, id), user) :
      updateTaskById(user, id, mode, payload, now)

DeleteRequest ==
  \E user \in Users, id \in Ids \cup RetryIds, mode \in Modes :
    deleteTaskById(user, id, mode)

Create ==
  /\ ops < MaxOps
  /\ CreateRequest
  /\ ops' = ops + 1
  /\ retried' = Retried
  /\ UNCHANGED <<pureVars, conv, run>>

Update ==
  /\ ops < MaxOps
  /\ UpdateRequest
  /\ ops' = ops + 1
  /\ retried' = Retried
  /\ UNCHANGED <<pureVars, conv, run>>

Delete ==
  /\ ops < MaxOps
  /\ DeleteRequest
  /\ ops' = ops + 1
  /\ retried' = Retried
  /\ UNCHANGED <<pureVars, conv, run>>

Next == Create \/ Update \/ Delete

Spec == Init /\ [][Next]_vars

\* the same requests and one more of them
OneMore ==
  /\ ops = MaxOps
  /\ (CreateRequest \/ UpdateRequest \/ DeleteRequest)
  /\ ops' = ops + 1
  /\ retried' = Retried
  /\ UNCHANGED <<pureVars, conv, run>>

NextLong == Next \/ OneMore

SpecLong == Init /\ [][NextLong]_vars

\* ------------------------------- a conversion, one store step after another
\* CASE 1 of updateTaskById with payload.recurrence, as the sequence of its
\* awaited store calls; each of them can reject, and the handler then ends in
\* its catch block with the collections as the steps before left them.
Converting == conv.pc \in {"saved", "deleted", "inserted"}

\* Task.findOne, new Series(...), series.save(), generateOccurrences(...)
ConvertSave ==
  /\ ops < MaxOps
  /\ ~Converting
  /\ \E user \in Users, id \in Ids, mode \in Modes, now \in RequestClock :
       \E payload \in UpdatePayloads(TaskOf(user, id), user) :
         LET task == TaskOf(user, id)
             title == OrTitle(payload.title, task.title)
             merged == IF payload.startTime # Absent THEN payload.startTime
                       ELSE task.startTime
             startTime == Or(merged, task.startTime)
             template ==
               [title |-> title, startTime |-> startTime,
                endTime |-> IF payload.endTime # Absent THEN payload.endTime
                            ELSE task.endTime,
                dueTime |-> IF payload.dueTime # Absent THEN payload.dueTime
                            ELSE task.dueTime]
             gen == generateOccurrences(startTime, payload.recurrence, now)
         IN  /\ task # NoTask
             /\ task.seriesId = Absent
             /\ payload.recurrence # NoRule
             /\ SeriesValid(payload.recurrence)
             /\ series' = series \cup {NewSeries(nextId, user, title, payload.recurrence)}
             /\ nextId' = nextId + 1
             /\ conv' = [pc |-> IF gen.ok THEN "saved" ELSE "failed",
                         user |-> user, task |-> task, mode |-> mode,
                         payload |-> payload, seriesId |-> nextId,
                         template |-> template, occurrences |-> gen.list]
  /\ ops' = ops + 1
  /\ UNCHANGED <<tasks, last, retried, pureVars, run>>

\* await Task.findByIdAndDelete(task._id)
ConvertDelete ==
  /\ conv.pc = "saved"
  /\ tasks' = findByIdAndDelete(tasks, conv.task.id)
  /\ conv' = [conv EXCEPT !.pc = "deleted"]
  /\ UNCHANGED <<series, nextId, ops, last, retried, pureVars, run>>

\* await createTasksFromSeries(series, taskTemplate, occurrences)
ConvertInsert ==
  /\ conv.pc = "deleted"
  /\ tasks' = tasks \cup createTasksFromSeries(conv.seriesId, conv.user, conv.template,
                                                conv.occurrences, nextId)
  /\ nextId' = nextId + Len(conv.occurrences)
  /\ conv' = [conv EXCEPT !.pc = "inserted"]
  /\ UNCHANGED <<series, ops, last, retried, pureVars, run>>

\* series.firstOccurrenceAt / lastOccurrenceAt, await series.save(), the response
ConvertBounds ==
  /\ conv.pc = "inserted"
  /\ series' = {IF s.id = conv.seriesId THEN WithBounds(s, conv.occurrences) ELSE s :
                  s \in series}
  /\ conv' = [conv EXCEPT !.pc = "done"]
  /\ last' = Done("update", conv.user, conv.task.id, conv.mode, conv.payload,
                  "convert", conv.task, conv.seriesId)
  /\ UNCHANGED <<tasks, nextId, ops, retried, pureVars, run>>

\* the awaited store call rejects: catch (error) { res.status(500) }
ConvertFail ==
  /\ Converting
  /\ conv' = [conv EXCEPT !.pc = "failed"]
  /\ UNCHANGED <<tasks, series, nextId, ops, last, retried, pureVars, run>>

\* the other requests are handled between conversions
Idle == ~Converting /\ Next

NextConvert ==
  Idle \/ ConvertSave \/ ConvertDelete \/ ConvertInsert \/ ConvertBounds \/ ConvertFail

SpecConvert == Init /\ [][NextConvert]_vars

\* ------------------------- two handlers at once, one store step after another
\* Each await of a handler is a step; between two steps of one handler the
\* other can take any number of its own. The store holds what one create left.
Seed == ops = 0 /\ Create

\* the second handler begins after the first; it overlaps the first when the
\* first has not ended by then
CanBegin(h) ==
  /\ ops = 1
  /\ run[h].pc = "idle"
  /\ h = 2 => run[1].pc # "idle"

Overlaps(h) == h = 2 /\ run[1].pc \notin {"done", "failed"}

Started(h, kind, user, task, payload) ==
  [NoHandler EXCEPT !.kind = kind, !.pc = "found", !.user = user, !.task = task,
                    !.payload = payload, !.overlap = Overlaps(h)]

\* bodies of the two updates: a longer duration; the rule as first sent, with
\* a new title
SplitPayloads(t) ==
  { [NoPayload EXCEPT !.endTime = t.endTime + TickHour],
    [NoPayload EXCEPT !.title = "b", !.recurrence = Daily3] }

\* updateMode 'following': const task = await Task.findOne({ _id, userId })
SplitFind(h) ==
  /\ CanBegin(h)
  /\ \E user \in Users, id \in Ids :
       \E payload \in SplitPayloads(TaskOf(user, id)) :
         /\ TaskOf(user, id) # NoTask
         /\ TaskOf(user, id).seriesId # Absent
         /\ run' = [run EXCEPT ![h] = Started(h, "split", user, TaskOf(user, id), payload)]
  /\ UNCHANGED <<tasks, series, nextId, ops, last, conv, retried, pureVars>>

\* const series = await Series.findById(task.seriesId): 404 without it; then
\* recurrenceChanged || timeChanged
SplitLoad(h) ==
  /\ run[h].kind = "split" /\ run[h].pc = "found"
  /\ LET sfound == {s \in series : s.id = run[h].task.seriesId}
         old == CHOOSE s \in sfound : TRUE
     IN  run' = [run EXCEPT ![h] =
                   IF sfound = {} THEN [@ EXCEPT !.pc = "failed"]
                   ELSE [@ EXCEPT !.old = old,
                                  !.pc = IF \/ recurrenceChanged(run[h].payload, old)
                                            \/ timeChanged(run[h].payload, run[h].task)
                                         THEN "loaded" ELSE "same"]]
  /\ UNCHANGED <<tasks, series, nextId, ops, last, conv, retried, pureVars>>

\* await newSeries.save(), then startForNew, baseDuration, taskTemplate and
\* generateOccurrences; a throw ends the handler in its catch block
SplitSave(h) ==
  /\ run[h].kind = "split" /\ run[h].pc = "loaded"
  /\ \E now \in RequestClock :
       LET payload == run[h].payload
           task == run[h].task
           old == run[h].old
           newRecurrence == IF payload.recurrence # NoRule THEN payload.recurrence
                            ELSE old.recurrence
           title == OrTitle(payload.title, old.title)
           tz == newRecurrence.timezone
           startForNew == IF tz = NoTz \/ ~Truthy(payload.startTime) THEN task.startTime
                          ELSE AlignStart(task.startTime, payload.startTime, tz, now)
           baseDuration == IF Truthy(payload.endTime) /\ Truthy(payload.startTime)
                           THEN payload.endTime - payload.startTime
                           ELSE IF Truthy(task.endTime) /\ Truthy(task.startTime)
                           THEN task.endTime - task.startTime ELSE 0
           template == [title |-> title, startTime |-> startForNew,
                        endTime |-> startForNew + baseDuration, dueTime |-> Absent]
           gen == generateOccurrences(startForNew, newRecurrence, now)
       IN  IF ~SeriesValid(newRecurrence)
           THEN /\ run' = [run EXCEPT ![h].pc = "failed"]
                /\ UNCHANGED <<series, nextId>>
           ELSE /\ series' = series \cup {NewSeries(nextId, run[h].user, title, newRecurrence)}
                /\ nextId' = nextId + 1
                /\ run' = [run EXCEPT ![h] =
                             [@ EXCEPT !.pc = IF gen.ok THEN "saved" ELSE "failed",
                                       !.newSeries = nextId,
                                       !.template = template,
                                       !.occurrences = gen.list]]
  /\ UNCHANGED <<tasks, ops, last, conv, retried, pureVars>>

\* await Task.deleteMany({ seriesId, userId, startTime: { $gte: task.startTime } })
SplitDeleteMany(h) ==
  /\ run[h].kind = "split" /\ run[h].pc = "saved"
  /\ tasks' = tasks \ thisAndFollowing(tasks, run[h].old.id, run[h].user,
                                       run[h].task.startTime)
  /\ run' = [run EXCEPT ![h].pc = "deleted"]
  /\ UNCHANGED <<series, nextId, ops, last, conv, retried, pureVars>>

\* await createTasksFromSeries(newSeries, taskTemplate, occurrences)
SplitInsert(h) ==
  /\ run[h].kind = "split" /\ run[h].pc = "deleted"
  /\ tasks' = tasks \cup createTasksFromSeries(run[h].newSeries, run[h].user,
                                                run[h].template, run[h].occurrences, nextId)
  /\ nextId' = nextId + Len(run[h].occurrences)
  /\ run' = [run EXCEPT ![h].pc = "inserted"]
  /\ UNCHANGED <<series, ops, last, conv, retried, pureVars>>

\* newSeries.firstOccurrenceAt / lastOccurrenceAt, await newSeries.save()
SplitBounds(h) ==
  /\ run[h].kind = "split" /\ run[h].pc = "inserted"
  /\ series' = {IF s.id = run[h].newSeries THEN WithBounds(s, run[h].occurrences) ELSE s :
                  s \in series}
  /\ run' = [run EXCEPT ![h].pc = "bounded"]
  /\ UNCHANGED <<tasks, nextId, ops, last, conv, retried, pureVars>>

\* const remainingOld = await Task.find({ seriesId, userId }).sort({ startTime: 1 })
SplitRemaining(h) ==
  /\ run[h].kind = "split" /\ run[h].pc = "bounded"
  /\ run' = [run EXCEPT ![h] =
               [@ EXCEPT !.pc = "read",
                         !.remaining = StartTimes(MembersOf(tasks, run[h].old.id,
                                                            run[h].user))]]
  /\ UNCHANGED <<tasks, series, nextId, ops, last, conv, retried, pureVars>>

\* await Series.findByIdAndUpdate(series._id, bounds) or findByIdAndDelete; the
\* handler ends here when fieldsToApply has no key
SplitOldWrite(h) ==
  /\ run[h].kind = "split" /\ run[h].pc = "read"
  /\ series' =
       IF run[h].remaining # {}
       THEN {IF s.id = run[h].old.id
             THEN [s EXCEPT !.firstOccurrenceAt = MinOf(run[h].remaining),
                            !.lastOccurrenceAt = MaxOf(run[h].remaining)]
             ELSE s : s \in series}
       ELSE seriesFindByIdAndDelete(series, run[h].old.id)
  /\ run' = [run EXCEPT ![h].pc = IF fieldsToApply(run[h].payload) = NoPayload
                                  THEN "done" ELSE "oldwritten"]
  /\ UNCHANGED <<tasks, nextId, ops, last, conv, retried, pureVars>>

\* await Task.updateMany(filter, { $set: fieldsToApply }): after a split over
\* the new series and the rest of the old one, without a change over this and
\* the following tasks of the series
SplitFields(h) ==
  /\ run[h].kind = "split" /\ run[h].pc \in {"oldwritten", "same"}
  /\ LET fields == fieldsToApply(run[h].payload)
         Hit(t) ==
           /\ t.userId = run[h].user
           /\ \/ run[h].pc = "oldwritten" /\ t.seriesId = run[h].newSeries
              \/ t.seriesId = run[h].old.id /\ t.startTime >= run[h].task.startTime
     IN  tasks' = IF fields = NoPayload THEN tasks
                  ELSE {IF Hit(t) THEN Apply(t, fields) ELSE t : t \in tasks}
  /\ run' = [run EXCEPT ![h].pc = "done"]
  /\ UNCHANGED <<series, nextId, ops, last, conv, retried, pureVars>>

\* deleteMode 'following': const task = await Task.findOne({ _id, userId })
DeleteFind(h) ==
  /\ CanBegin(h)
  /\ \E user \in Users, id \in Ids :
       /\ TaskOf(user, id) # NoTask
       /\ TaskOf(user, id).seriesId # Absent
       /\ run' = [run EXCEPT ![h] = Started(h, "delete", user, TaskOf(user, id), NoPayload)]
  /\ UNCHANGED <<tasks, series, nextId, ops, last, conv, retried, pureVars>>

\* await Task.deleteMany({ seriesId, startTime: { $gte: task.startTime }, userId })
DeleteMany(h) ==
  /\ run[h].kind = "delete" /\ run[h].pc = "found"
  /\ tasks' = tasks \ thisAndFollowing(tasks, run[h].task.seriesId, run[h].user,
                                       run[h].task.startTime)
  /\ run' = [run EXCEPT ![h].pc = "deleted"]
  /\ UNCHANGED <<series, nextId, ops, last, conv, retried, pureVars>>

\* const remainingTasks = await Task.find({ seriesId, userId })
\*   .sort({ startTime: -1 }).limit(1)
DeleteRemaining(h) ==
  /\ run[h].kind = "delete" /\ run[h].pc = "deleted"
  /\ run' = [run EXCEPT ![h] =
               [@ EXCEPT !.pc = "read",
                         !.remaining = StartTimes(MembersOf(tasks, run[h].task.seriesId,
                                                            run[h].user))]]
  /\ UNCHANGED <<tasks, series, nextId, ops, last, conv, retried, pureVars>>

\* await Series.findByIdAndUpdate(task.seriesId, { lastOccurrenceAt }) or
\* await Series.findByIdAndDelete(task.seriesId), then the response
DeleteSeriesWrite(h) ==
  /\ run[h].kind = "delete" /\ run[h].pc = "read"
  /\ series' =
       IF run[h].remaining # {}
       THEN {IF s.id = run[h].task.seriesId
             THEN [s EXCEPT !.lastOccurrenceAt = MaxOf(run[h].remaining)]
             ELSE s : s \in series}
       ELSE seriesFindByIdAndDelete(series, run[h].task.seriesId)
  /\ run' = [run EXCEPT ![h].pc = "done"]
  /\ UNCHANGED <<tasks, nextId, ops, last, conv, retried, pureVars>>

SplitStep(h) ==
  \/ SplitFind(h) \/ SplitLoad(h) \/ SplitSave(h) \/ SplitDeleteMany(h)
  \/ SplitInsert(h) \/ SplitBounds(h) \/ SplitRemaining(h) \/ SplitOldWrite(h)
  \/ SplitFields(h)

DeleteStep(h) ==
  DeleteFind(h) \/ DeleteMany(h) \/ DeleteRemaining(h) \/ DeleteSeriesWrite(h)

NextRace == Seed \/ \E h \in Handlers : SplitStep(h) \/ DeleteStep(h)

SpecRace == Init /\ [][NextRace]_vars

\* ------------------------------------------- compareTwoRecurrence on its own
\* rules that differ from one weekly rule in one field each
CmpBase == [Rule("weekly", 1, 3, Absent, "UTC") EXCEPT !.daysOfWeek = <<1, 3>>]

CmpRules ==
  {CmpBase,
   [CmpBase EXCEPT !.frequency = "daily"],
   [CmpBase EXCEPT !.interval = 2], [CmpBase EXCEPT !.interval = Absent],
   [CmpBase EXCEPT !.endDate = Anchor],
   [CmpBase EXCEPT !.count = 0], [CmpBase EXCEPT !.count = Absent],
   [CmpBase EXCEPT !.dayOfMonth = 3],
   [CmpBase EXCEPT !.timezone = "America/New_York"]}
  \cup {[CmpBase EXCEPT !.daysOfWeek = d] :
          d \in {<<3, 1>>, <<1, 1, 3>>, <<1, 3, 3>>, <<1>>, <<>>, AbsentDays}}
  \cup {[CmpBase EXCEPT !.weekAndDayOfMonth = w] : w \in GenWeekAndDay}

CmpInit ==
  /\ cmp \in {[r1 |-> a, r2 |-> b, out |-> FALSE, done |-> FALSE] :
                a \in CmpRules, b \in CmpRules}
  /\ tasks = {}
  /\ series = {}
  /\ nextId = 1
  /\ ops = 0
  /\ last = NoRequest
  /\ conv = NoConversion
  /\ run = [h \in Handlers |-> NoHandler]
  /\ retried = "none"
  /\ genIn = GenIdle
  /\ genOut = Thrown
  /\ genDone = TRUE

\* one call of compareTwoRecurrence(recurrence1, recurrence2)
Compare ==
  /\ ~cmp.done
  /\ cmp' = [cmp EXCEPT !.out = compareTwoRecurrence(cmp.r1, cmp.r2), !.done = TRUE]
  /\ UNCHANGED <<genVars, tasks, series, nextId, ops, last, conv, retried, run>>

CmpNext == Compare

SpecCmp == CmpInit /\ [][CmpNext]_vars

\* ---------------------------------------------- the generator on its own
GenInit ==
  /\ genIn \in UNION {UNION {{[startTime |-> a, recurrence |-> r, now |-> n] :
                                  n \in GenNows(r)} : r \in GenRules(a)} : a \in GenAnchors}
  /\ genOut = Thrown
  /\ genDone = FALSE
  /\ tasks = {}
  /\ series = {}
  /\ nextId = 1
  /\ ops = 0
  /\ last = NoRequest
  /\ conv = NoConversion
  /\ run = [h \in Handlers |-> NoHandler]
  /\ retried = "none"
  /\ cmp = CmpIdle

\* one call of generateOccurrences({ startTime, recurrence })
Generate ==
  /\ ~genDone
  /\ genOut' = generateOccurrences(genIn.startTime, genIn.recurrence, genIn.now)
  /\ genDone' = TRUE
  /\ UNCHANGED <<genIn, cmp, tasks, series, nextId, ops, last, conv, retried, run>>

GenNext == Generate

SpecGen == GenInit /\ [][GenNext]_vars

\* --------------------------------------------------- claims on the generator
GenRule == genIn.recurrence
GenList == genOut.list
Returned == genDone /\ genOut.ok

\* C4: for every rule and anchor generateOccurrences returns at most
\* MAX_OCCURRENCES (200) timestamps, with count or with endDate alone.
C4_AtMostCeiling == Returned => Len(GenList) <= MAX_OCCURRENCES

\* the candidate years of a yearly rule in which the anchor's day is missing
C5_InvalidYears ==
  LET a == LocalFields(genIn.startTime, GenRule.timezone)
  IN  Cardinality({i \in 0..(Min2(GenRule.count, 200) - 1) :
                     a.day > DaysInMonth(a.year + i, a.month)})

\* C5: with count = N >= 1 and no endDate the result has exactly min(N, 200)
\* timestamps (daily, weekly, monthly), and for a yearly rule min(N, 200)
\* minus the candidate years in which the anchor's month/day does not exist.
C5_ExactlyCount ==
  (Returned /\ GenRule.count >= 1 /\ GenRule.endDate = Absent)
    => Len(GenList) = Min2(GenRule.count, 200)
                      - (IF GenRule.frequency = "yearly" THEN C5_InvalidYears ELSE 0)

StrictlyIncreasing(l) == \A i \in 1..(Len(l) - 1) : l[i] < l[i + 1]

SameClock(a, b) == a.hour = b.hour /\ a.minute = b.minute /\ a.second = b.second

\* C6 (as stated): the result is strictly increasing and every timestamp
\* reads, in the rule's zone, the hour, minute and second of the anchor.
C6_IncreasingSameClock ==
  Returned =>
    /\ StrictlyIncreasing(GenList)
    /\ \A i \in 1..Len(GenList) :
         SameClock(LocalFields(GenList[i], GenRule.timezone),
                   LocalFields(genIn.startTime, GenRule.timezone))

\* whether some instant reads the wall clock f in the zone
ClockExists(f, zone) ==
  \E h \in {0, 4, 5} :
    LET t == UtcTS(f.year, f.month, f.day, f.hour, f.minute, f.second, 0) + h * TickHour
    IN  ZoneOffset(zone, t) = (0 - h) * TickHour

C6_ClockOf(i) == LocalFields(GenList[i], GenRule.timezone)
C6_Anchor == LocalFields(genIn.startTime, GenRule.timezone)
C6_Wanted(i) == [C6_ClockOf(i) EXCEPT !.hour = C6_Anchor.hour]

\* C6 (amended): the result is strictly increasing; a wall-clock time that the
\* zone skips on the day of the occurrence (a daylight-saving gap) is read one
\* hour later; every other occurrence reads the anchor's hour, and all read
\* its minute and second.
C6_IncreasingSameClockOutsideGaps ==
  Returned =>
    /\ StrictlyIncreasing(GenList)
    /\ \A i \in 1..Len(GenList) :
         /\ C6_ClockOf(i).minute = C6_Anchor.minute
         /\ C6_ClockOf(i).second = C6_Anchor.second
         /\ C6_ClockOf(i).hour =
              IF ClockExists(C6_Wanted(i), GenRule.timezone) THEN C6_Anchor.hour
              ELSE C6_Anchor.hour + 1

\* reached: a result of several occurrences in the zone with daylight saving,
\* one of them on the day the anchor's wall-clock time is skipped
C6_Witness ==
  /\ Returned /\ Len(GenList) >= 3 /\ GenRule.timezone = "America/New_York"
  /\ \E i \in 1..Len(GenList) : ~ClockExists(C6_Wanted(i), GenRule.timezone)
  /\ \E i \in 1..Len(GenList) : C6_ClockOf(i).hour = C6_Anchor.hour

\* ------------------------------------------------ claims on the collections
Target == last.target
Principal == last.user
\* the tasks of the principal in the target's series, before and after
Family == MembersOf(tasks, last'.target.seriesId, last'.user)
FamilyAfter == MembersOf(tasks', last'.target.seriesId, last'.user)
TaskIds(ts) == {t.id : t \in ts}
SeriesIds(ss) == {s.id : s \in ss}

\* C1: every Series with member Tasks has firstOccurrenceAt equal to the
\* minimum and lastOccurrenceAt equal to the maximum startTime of the Tasks
\* that reference it, after any sequence of requests.
C1_BoundsAreMinMax ==
  \A s \in series :
    Members(tasks, s.id) # {} =>
      /\ s.firstOccurrenceAt = MinOf(StartTimes(Members(tasks, s.id)))
      /\ s.lastOccurrenceAt = MaxOf(StartTimes(Members(tasks, s.id)))

LocalDay(ts, zone) ==
  LET f == LocalFields(ts, zone) IN DaysFromCivil(f.year, f.month, f.day)

C3_NoEmptySeries == \A s \in series : Members(tasks, s.id) # {}

\* C7: delete with mode all on a member of a Series removes every Task of the
\* principal with that seriesId and the Series, so that the principal has no
\* Task with that seriesId and no Series has that id; on a standalone Task it
\* removes that Task alone.
C7_DeleteAll ==
  [][(last'.op = "delete" /\ last'.mode = "all" /\ last'.path # "notfound") =>
       IF last'.target.seriesId # Absent
       THEN /\ tasks' = tasks \ Family
            /\ last'.target \in Family
            /\ FamilyAfter = {}
            /\ series' = {s \in series : s.id # last'.target.seriesId}
            /\ last'.target.seriesId \notin SeriesIds(series')
       ELSE /\ tasks' = tasks \ {last'.target}
            /\ last'.target \in tasks
            /\ series' = series]_vars

\* a Series of several Tasks and its Tasks are gone after a delete with mode all
C7_Witness ==
  /\ last.op = "delete" /\ last.mode = "all" /\ last.path = "all"
  /\ Target.seriesId \notin SeriesIds(series)
  /\ Members(tasks, Target.seriesId) = {}
  /\ nextId - Target.seriesId >= 4

C10_Set(t, p) ==
  [t EXCEPT !.title = IF p.title # NoTitle THEN p.title ELSE @,
            !.userId = IF p.userId # Absent THEN p.userId ELSE @,
            !.seriesId = IF p.seriesId # Absent THEN p.seriesId ELSE @]

\* C10: an update with mode following and no rule or time change sets the
\* payload's non-scheduling fields on exactly the principal's Tasks of the
\* Series with startTime >= target.startTime; every other Task is unchanged,
\* startTime, endTime, dueTime and completeTime of every Task are unchanged,
\* and no Task or Series is created or deleted.
C10_FollowingFieldsOnly ==
  [][(last'.op = "update" /\ last'.path = "following-unchanged") =>
       LET sel == {t \in Family : t.startTime >= last'.target.startTime}
       IN  /\ last'.mode = "following"
           /\ last'.target \in sel
           /\ tasks' = (tasks \ sel) \cup {C10_Set(t, last'.payload) : t \in sel}
           /\ \A t \in tasks : \E u \in tasks' :
                /\ u.id = t.id
                /\ u.startTime = t.startTime /\ u.endTime = t.endTime
                /\ u.dueTime = t.dueTime /\ u.completeTime = t.completeTime
           /\ TaskIds(tasks') = TaskIds(tasks)
           /\ series' = series]_vars

\* a following update whose body carries a new title together with the
\* target's own times, a due and a completion time: the target and the later
\* Task have the title and no due time, the earlier Task keeps its title
C10_Witness ==
  /\ last.op = "update" /\ last.path = "following-unchanged"
  /\ last.payload.title = "b" /\ last.payload.dueTime # Absent
  /\ \E t \in tasks : t.id = Target.id /\ t.title = "b" /\ t.dueTime = Absent
  /\ \E t \in Members(tasks, Target.seriesId) :
       t.startTime > Target.startTime /\ t.title = "b" /\ t.completeTime = Absent
  /\ \E t \in Members(tasks, Target.seriesId) :
       t.startTime < Target.startTime /\ t.title = "a"

\* C11: an update with mode all and no rule or time change sets the payload's
\* non-scheduling fields on every Task of the principal in the Series, changes
\* no scheduling field, and sets the Series' own title to the payload's when
\* one is supplied, so that the Series' title equals its Tasks'.
C11_AllFieldsOnTasksAndSeries ==
  [][(last'.op = "update" /\ last'.path = "all-unchanged") =>
       /\ tasks' = (tasks \ Family) \cup {C10_Set(t, last'.payload) : t \in Family}
       /\ \A s \in series' :
            (s.id = last'.target.seriesId /\ last'.payload.title # NoTitle) =>
              /\ s.title = last'.payload.title
              /\ \A t \in FamilyAfter : t.title = s.title]_vars

\* the timestamps a regeneration asks of generateOccurrences: the rule is the
\* payload's or else the stored one, the anchor the old Series' first
\* occurrence with the payload's time of day
C12_Occurrences ==
  LET old == CHOOSE s \in series : s.id = last'.target.seriesId
      p == last'.payload
      rule == IF p.recurrence # NoRule THEN p.recurrence ELSE old.recurrence
      now == CHOOSE n \in RequestClock : TRUE
      anchor == IF Truthy(p.startTime)
                THEN AlignStart(old.firstOccurrenceAt, p.startTime, rule.timezone, now)
                ELSE old.firstOccurrenceAt
  IN  SeqToSet(generateOccurrences(anchor, rule, now).list)

\* C12: when an update with mode all whose rule or start/end time changed
\* completes, the old Series and the principal's Tasks that referenced it are
\* gone, one new Series exists, its Tasks are new Tasks of the principal, one
\* for each timestamp generateOccurrences returns for the new rule, and its
\* bounds are the least and the greatest of those timestamps; nothing else
\* changes.
C12_Regeneration ==
  [][(last'.op = "update" /\ last'.path = "all-changed") =>
       LET old == last'.target.seriesId
           new == CHOOSE s \in series' : s.id = last'.newSeries
           made == Members(tasks', new.id)
       IN  /\ last'.mode = "all"
           /\ old \notin SeriesIds(series')
           /\ FamilyAfter = {}
           /\ new.id \notin SeriesIds(series)
           /\ series' = {s \in series : s.id # old} \cup {new}
           /\ tasks' = (tasks \ Family) \cup made
           /\ \A t \in made :
                t.id \notin TaskIds(tasks) /\ t.userId = last'.user /\ t.isRecurring
           /\ StartTimes(made) = C12_Occurrences
           /\ Cardinality(made) = Cardinality(C12_Occurrences)
           /\ made # {} =>
                /\ new.firstOccurrenceAt = MinOf(C12_Occurrences)
                /\ new.lastOccurrenceAt = MaxOf(C12_Occurrences)]_vars

\* a Series of three daily Tasks has been replaced by one of two weekly Tasks
C12_Witness ==
  /\ last.op = "update" /\ last.path = "all-changed"
  /\ last.payload.recurrence = Weekly2
  /\ nextId - Target.seriesId >= 4
  /\ Target.seriesId \notin SeriesIds(series)
  /\ Members(tasks, Target.seriesId) = {}
  /\ \E s \in series :
       /\ s.id = last.newSeries
       /\ Cardinality(Members(tasks, s.id)) = 2
       /\ s.lastOccurrenceAt = s.firstOccurrenceAt + 7 * TickDay

\* C13: the Series created by a following update that splits a Series carries
\* parentSeriesId equal to the id of the Series it was split from and
\* splitFromOccurrenceOn equal to the target's startTime.
C13_SplitBackReference ==
  [][(last'.op = "update" /\ last'.path = "following-changed") =>
       \A s \in series' :
         s.id = last'.newSeries =>
           /\ s.parentSeriesId = last'.target.seriesId
           /\ s.splitFromOccurrenceOn = last'.target.startTime]_vars

\* C14: an update with mode single on a Task that belongs to a Series changes
\* that Task alone: the payload's fields, the scheduling fields among them, are
\* set on it and a rule in the payload is ignored; the Series, every other
\* Series and every other Task are unchanged, and no Task or Series is created
\* or deleted.
C14_SingleOnlyTarget ==
  [][(last'.op = "update" /\ last'.path = "single") =>
       LET t == last'.target
           p == last'.payload
           u == CHOOSE x \in tasks' : x.id = t.id
       IN  /\ last'.mode \notin {"all", "following"}
           /\ t \in tasks /\ t.seriesId \in SeriesIds(series)
           /\ series' = series
           /\ nextId' = nextId
           /\ TaskIds(tasks') = TaskIds(tasks)
           /\ tasks' \ {u} = tasks \ {t}
           /\ u.title = (IF p.title # NoTitle THEN p.title ELSE t.title)
           /\ u.startTime = (IF p.startTime # Absent THEN p.startTime ELSE t.startTime)
           /\ u.endTime = (IF p.endTime # Absent THEN p.endTime ELSE t.endTime)
           /\ u.dueTime = (IF p.dueTime # Absent THEN p.dueTime ELSE t.dueTime)
           /\ u.completeTime
                = (IF p.completeTime # Absent THEN p.completeTime ELSE t.completeTime)
           /\ u.isRecurring = t.isRecurring]_vars

\* a single update has moved one Task of a Series of three before the others:
\* the Series still begins where it did and the other two Tasks are in place
C14_Witness ==
  /\ last.op = "update" /\ last.path = "single" /\ last.mode = "single"
  /\ last.payload.startTime # Absent
  /\ \E u \in tasks :
       /\ u.id = Target.id
       /\ u.startTime = last.payload.startTime
       /\ u.startTime < Target.startTime
       /\ \E s \in series : s.id = u.seriesId /\ s.firstOccurrenceAt > u.startTime
  /\ Cardinality(Members(tasks, Target.seriesId)) = 3

\* C15: in a conversion whose rule yields occurrences, the original standalone
\* Task is deleted only after the Tasks of the new Series have been inserted:
\* at no step of the conversion, and after no failure of one of its steps, is
\* the original Task gone while no Task of the new Series exists.
C15_OriginalUntilInserted ==
  (conv.pc # "idle" /\ Len(conv.occurrences) > 0) =>
    \/ conv.task \in tasks
    \/ Members(tasks, conv.seriesId) # {}

\* C16: a create takes the recurring path exactly when its payload carries a
\* rule: without a rule it inserts one standalone Task (no seriesId,
\* isRecurring false) and no Series; with a rule it does not insert a
\* standalone Task, whatever else the payload carries, and when it completes a
\* new Series exists with its Tasks.
C16_RecurringIffRule ==
  [][(last'.op = "create") =>
       IF last'.payload.recurrence = NoRule
       THEN /\ last'.path = "standalone"
            /\ series' = series
            /\ \E t \in tasks' :
                 /\ tasks' = tasks \cup {t}
                 /\ t \notin tasks
                 /\ t.seriesId = Absent
                 /\ ~t.isRecurring
       ELSE /\ last'.path # "standalone"
            /\ last'.path = "recurring" =>
                 /\ last'.newSeries \in SeriesIds(series') \ SeriesIds(series)
                 /\ \A t \in tasks' \ tasks :
                      t.seriesId = last'.newSeries /\ t.isRecurring]_vars

\* the timestamps generateOccurrences returns for the payload of the last create
C17_Occurrences ==
  generateOccurrences(last'.payload.startTime, last'.payload.recurrence,
                      CHOOSE n \in RequestClock : TRUE).list

\* C17: a recurring create inserts exactly one Task for each timestamp that
\* generateOccurrences returns, with startTime equal to the timestamp, endTime
\* equal to the timestamp plus the payload's endTime - startTime, seriesId
\* equal to the new Series' id and isRecurring true; the new Series'
\* firstOccurrenceAt and lastOccurrenceAt are the least and the greatest of
\* the timestamps.
C17_OneTaskPerOccurrence ==
  [][(last'.op = "create" /\ last'.path = "recurring") =>
       LET p == last'.payload
           made == tasks' \ tasks
           new == CHOOSE s \in series' : s.id = last'.newSeries
       IN  /\ tasks \subseteq tasks'
           /\ series' \ series = {new}
           /\ series \subseteq series'
           /\ Cardinality(made) = Len(C17_Occurrences)
           /\ \A i \in 1..Len(C17_Occurrences) :
                Cardinality({t \in made : t.startTime = C17_Occurrences[i]}) = 1
           /\ \A t \in made :
                /\ t.startTime \in SeqToSet(C17_Occurrences)
                /\ t.endTime = t.startTime + (p.endTime - p.startTime)
                /\ t.seriesId = new.id
                /\ t.isRecurring
                /\ t.userId = last'.user
           /\ Len(C17_Occurrences) > 0 =>
                /\ new.firstOccurrenceAt = MinOf(SeqToSet(C17_Occurrences))
                /\ new.lastOccurrenceAt = MaxOf(SeqToSet(C17_Occurrences))]_vars

\* a create with a daily rule of count 3 has made three Tasks of one hour, a
\* day apart, and the Series spans the first to the third
C17_Witness ==
  /\ last.op = "create" /\ last.path = "recurring"
  /\ last.payload.recurrence = Daily3
  /\ \A d \in 0..2 : \E t \in Members(tasks, last.newSeries) :
       /\ t.startTime = Anchor + d * TickDay
       /\ t.endTime = t.startTime + TickHour
       /\ t.isRecurring
  /\ Cardinality(Members(tasks, last.newSeries)) = 3
  /\ \E s \in series :
       /\ s.id = last.newSeries
       /\ s.firstOccurrenceAt = Anchor
       /\ s.lastOccurrenceAt = Anchor + 2 * TickDay

\* C18: generateOccurrences called with a rule that has no timezone throws and
\* returns no occurrence, whatever the frequency of the rule (daily, weekly,
\* monthly or yearly).
C18_NoTimezoneThrows ==
  (genDone /\ GenRule.timezone = NoTz) => (~genOut.ok /\ genOut.list = <<>>)

\* a yearly rule of count 3 without timezone has been refused
C18_Witness ==
  /\ genDone
  /\ GenRule.timezone = NoTz
  /\ GenRule.frequency = "yearly" /\ GenRule.count = 3
  /\ ~genOut.ok

\* C19: for a daily, weekly or monthly rule with neither count nor endDate,
\* generateOccurrences returns exactly one timestamp, the anchor startTime
\* itself, with or without daysOfWeek, dayOfMonth or weekAndDayOfMonth.
C19_OnlyTheAnchor ==
  (Returned /\ GenRule.frequency \in {"daily", "weekly", "monthly"}
     /\ GenRule.count = Absent /\ GenRule.endDate = Absent) =>
    GenList = <<genIn.startTime>>

\* the month, counted from year 0, in which timestamp ts falls in the zone of
\* the rule
C20_MonthOf(ts) == MonthIndex(LocalFields(ts, GenRule.timezone))
C20_DayOf(ts) == LocalFields(ts, GenRule.timezone).day
C20_LastDay(ts) ==
  DaysInMonth(LocalFields(ts, GenRule.timezone).year,
              LocalFields(ts, GenRule.timezone).month)

\* C20: for a monthly rule with a fixed dayOfMonth d every month of the
\* recurrence has an occurrence: consecutive occurrences are interval months
\* apart, and each falls on day d of its month or, in a month with fewer than
\* d days, on the month's last day.
C20_EveryMonthClamped ==
  (Returned /\ GenRule.frequency = "monthly" /\ GenRule.dayOfMonth # Absent
     /\ ~GenRule.weekAndDayOfMonth.present) =>
    /\ \A i \in 1..Len(GenList) :
         C20_DayOf(GenList[i]) = Min2(GenRule.dayOfMonth, C20_LastDay(GenList[i]))
    /\ \A i \in 1..(Len(GenList) - 1) :
         C20_MonthOf(GenList[i + 1]) - C20_MonthOf(GenList[i])
           = (IF Truthy(GenRule.interval) THEN GenRule.interval ELSE 1)
    /\ (Truthy(GenRule.count) /\ GenRule.count <= MAX_OCCURRENCES) =>
         Len(GenList) = GenRule.count

\* the anchor as the rule's zone reads it
C21_Anchor == LocalFields(genIn.startTime, GenRule.timezone)
\* the candidate years of a yearly rule with a count: one per year, at most 200
C21_Years == C21_Anchor.year .. (C21_Anchor.year + Min2(GenRule.count, 200) - 1)
C21_Read(i) == LocalFields(GenList[i], GenRule.timezone)

\* C21: for a yearly rule anchored on February 29 with count N the result is
\* exactly the February 29 of the leap years among the candidate years, in
\* order; a year that is not a leap year has no occurrence (neither February
\* 28 nor March 1), nothing is thrown, and with N >= 2 fewer than N
\* timestamps are returned.
C21_LeapYearsOnly ==
  (genDone /\ GenRule.timezone # NoTz /\ GenRule.frequency = "yearly"
     /\ GenRule.count >= 1 /\ C21_Anchor.month = 2 /\ C21_Anchor.day = 29) =>
    /\ genOut.ok
    /\ Len(GenList) = Cardinality({y \in C21_Years : IsLeap(y)})
    /\ \A i \in 1..Len(GenList) :
         /\ C21_Read(i).month = 2 /\ C21_Read(i).day = 29
         /\ C21_Read(i).year \in C21_Years
         /\ SameClock(C21_Read(i), C21_Anchor)
    /\ \A i \in 1..(Len(GenList) - 1) : C21_Read(i).year < C21_Read(i + 1).year
    /\ GenRule.count >= 2 => Len(GenList) < GenRule.count

\* a count above the ceiling from 29 February 2024: of the 200 candidate
\* years 2024..2223 the 48 leap years have an occurrence (2100 and 2200 none)
C21_Witness ==
  /\ Returned
  /\ GenRule.frequency = "yearly" /\ GenRule.count = 201
  /\ C21_Anchor.month = 2 /\ C21_Anchor.day = 29 /\ C21_Anchor.year = 2024
  /\ Len(GenList) = 48
  /\ \E i \in 1..(Len(GenList) - 1) :
       C21_Read(i).year = 2096 /\ C21_Read(i + 1).year = 2104

\* C22: for a yearly rule with interval k the candidate years are anchorYear,
\* anchorYear + k, anchorYear + 2k, ..., with a count as well as with an
\* endDate: every occurrence falls in a year that is a multiple of k after the
\* anchor's, and when no candidate year was dropped as invalid two
\* consecutive occurrences are exactly k years apart.
C22_EveryKthYear ==
  (Returned /\ GenRule.frequency = "yearly" /\ Truthy(GenRule.interval)) =>
    /\ \A i \in 1..Len(GenList) :
         (C21_Read(i).year - C21_Anchor.year) % GenRule.interval = 0
    /\ ~(C21_Anchor.month = 2 /\ C21_Anchor.day = 29) =>
         \A i \in 1..(Len(GenList) - 1) :
           C21_Read(i + 1).year - C21_Read(i).year = GenRule.interval

\* ------------------------------------------- claims on compareTwoRecurrence
C23_SameScalars ==
  /\ cmp.r1.frequency = cmp.r2.frequency
  /\ cmp.r1.interval = cmp.r2.interval
  /\ cmp.r1.endDate = cmp.r2.endDate
  /\ cmp.r1.count = cmp.r2.count
  /\ cmp.r1.dayOfMonth = cmp.r2.dayOfMonth
  /\ cmp.r1.timezone = cmp.r2.timezone

C23_SameWeekAndDay ==
  LET a == cmp.r1.weekAndDayOfMonth
      b == cmp.r2.weekAndDayOfMonth
  IN  \/ ~a.present /\ ~b.present
      \/ /\ a.present /\ b.present
         /\ a.dayOfWeek = b.dayOfWeek
         /\ a.weekOfMonth = b.weekOfMonth

\* C23 (as stated): compareTwoRecurrence returns true exactly when the six
\* scalar fields are equal, the daysOfWeek are equal as sets (order and
\* repetition ignored, both absent equal) and the weekAndDayOfMonth are both
\* absent or agree on dayOfWeek and weekOfMonth.
C23_EqualAsSets ==
  cmp.done =>
    (cmp.out <=>
       /\ C23_SameScalars
       /\ IF cmp.r1.daysOfWeek = AbsentDays \/ cmp.r2.daysOfWeek = AbsentDays
          THEN cmp.r1.daysOfWeek = cmp.r2.daysOfWeek
          ELSE SeqToSet(cmp.r1.daysOfWeek) = SeqToSet(cmp.r2.daysOfWeek)
       /\ C23_SameWeekAndDay)

\* whether b is a rearrangement of a
C23_Rearranged(a, b) ==
  /\ Len(a) = Len(b)
  /\ \E p \in [1..Len(a) -> 1..Len(a)] :
       /\ \A i, j \in 1..Len(a) : p[i] = p[j] => i = j
       /\ \A i \in 1..Len(a) : a[i] = b[p[i]]

\* C23 (amended): compareTwoRecurrence returns true exactly when the six
\* scalar fields are equal, the daysOfWeek are both absent or one is a
\* rearrangement of the other (order ignored, every value as many times in
\* the one as in the other) and the weekAndDayOfMonth are both absent or
\* agree on dayOfWeek and weekOfMonth.
C23_EqualAsRearrangement ==
  cmp.done =>
    (cmp.out <=>
       /\ C23_SameScalars
       /\ IF cmp.r1.daysOfWeek = AbsentDays \/ cmp.r2.daysOfWeek = AbsentDays
          THEN cmp.r1.daysOfWeek = cmp.r2.daysOfWeek
          ELSE C23_Rearranged(cmp.r1.daysOfWeek, cmp.r2.daysOfWeek)
       /\ C23_SameWeekAndDay)

\* two rules whose daysOfWeek hold the same days in another order have
\* compared equal
C23_Witness ==
  /\ cmp.done /\ cmp.out
  /\ cmp.r1.daysOfWeek = <<1, 3>> /\ cmp.r2.daysOfWeek = <<3, 1>>

\* ------------------------------------------------------ claims on ownership
\* C24: no request of a principal modifies or deletes a Task or a Series of
\* another principal, and none leaves a Task the principal owned with another
\* principal as its owner.
C24_ScopedByPrincipal ==
  [][ops' = ops + 1 =>
       /\ \A t \in tasks : t.userId # last'.user => t \in tasks'
       /\ \A s \in series : s.userId # last'.user => s \in series'
       /\ \A t \in tasks : t.userId = last'.user =>
            \A x \in tasks' : x.id = t.id => x.userId = last'.user]_vars

\* ------------------------------------------------------- claims on retries
\* C26: a delete request that repeats the delete handled just before it (the
\* same principal, id and mode) leaves the Task and the Series collections
\* exactly as the first one left them, whatever the mode.
C26_DeleteIdempotent ==
  [][retried' # "none" => tasks' = tasks /\ series' = series]_vars

\* a delete of this and the following tasks of a series has been repeated
C26_Witness ==
  /\ retried = "following"
  /\ last.op = "delete" /\ last.mode = "following" /\ last.path = "notfound"
  /\ series # {}

\* ---------------------------------------------------- claims on regeneration
\* the old series of the request being handled, and the rule of its new one
C27_Old == CHOOSE s \in series : s.id = last'.target.seriesId
C27_Rule ==
  IF last'.payload.recurrence # NoRule THEN last'.payload.recurrence
  ELSE C27_Old.recurrence

\* C27: in a regeneration of mode all, the anchor handed to
\* generateOccurrences falls on the calendar date (in the rule's timezone) of
\* the earliest startTime among the Tasks the principal has in the old Series
\* at that moment, whatever single-task updates and deletes came before.
C27_AnchorOnEarliestDay ==
  [][(last'.op = "update" /\ last'.path = "all-changed") =>
       \A now \in RequestClock :
         LocalDay(anchorOfAll(firstStartOf(C27_Old, Family), C27_Rule, last'.payload, now),
                  OrUTC(C27_Rule.timezone))
           = LocalDay(MinOf(StartTimes(Family)), OrUTC(C27_Rule.timezone))]_vars

\* C28: an update of mode all or following whose payload carries nothing but
\* the rule from which the Series was created (the stored rule being that rule
\* with the schema defaults filled in) is no recurrence change: no Series is
\* created or removed and no Task is deleted or generated.
C28_SameRuleIsNoChange ==
  [][(/\ last'.op = "update"
      /\ last'.mode \in {"all", "following"}
      /\ last'.target.seriesId # Absent
      /\ last'.payload.recurrence # NoRule
      /\ last'.payload = [NoPayload EXCEPT !.recurrence = last'.payload.recurrence]
      /\ \E s \in series : /\ s.id = last'.target.seriesId
                           /\ s.recurrence = Stored(last'.payload.recurrence)) =>
       /\ SeriesIds(series') = SeriesIds(series)
       /\ TaskIds(tasks') = TaskIds(tasks)
       /\ nextId' = nextId]_vars

\* C29: when a regeneration (mode all) or a split (mode following) comes from
\* a payload that does not carry both startTime and endTime, every Task of
\* the new Series lasts as long as the target Task did.
C29_DurationKept ==
  [][(/\ last'.op = "update"
      /\ last'.path \in {"all-changed", "following-changed"}
      /\ ~(Truthy(last'.payload.startTime) /\ Truthy(last'.payload.endTime))) =>
       \A t \in Members(tasks', last'.newSeries) :
         t.endTime - t.startTime = last'.target.endTime - last'.target.startTime]_vars

\* ------------------------------------------------- claims on two handlers
\* both handlers are of this kind, began on different Tasks of one Series, ran
\* with their steps interleaved, and have ended
C25_BothEnded(kind) ==
  /\ \A h \in Handlers : run[h].kind = kind /\ run[h].pc = "done"
  /\ run[2].overlap
  /\ run[1].task.seriesId = run[2].task.seriesId
  /\ run[1].task.id # run[2].task.id

\* C25: once two interleaved following splits on different Tasks of one
\* Series have both ended, no Task made by the one starts at the same time as
\* a Task made by the other.
C25_LaterWriteWins ==
  C25_BothEnded("split") =>
    \A t1 \in Members(tasks, run[1].newSeries), t2 \in Members(tasks, run[2].newSeries) :
      t1.startTime # t2.startTime

\* C30: once two interleaved following deletes on different Tasks of one
\* Series have both ended, the Series is gone or its lastOccurrenceAt is the
\* maximum startTime of the Tasks that remain in it.
C30_LastOccurrenceIsMax ==
  C25_BothEnded("delete") =>
    \A s \in series :
      s.id = run[1].task.seriesId =>
        /\ Members(tasks, s.id) # {}
        /\ s.lastOccurrenceAt = MaxOf(StartTimes(Members(tasks, s.id)))

====
